---- MODULE Spec2Model ----
(***************************************************************************)
(* litJSX: JSX-like tagged template literals.                              *)
(*                                                                         *)
(* A template is parsed once into a positional tree (strings, integer      *)
(* substitution indices and [name, attributes, children] triples), cached  *)
(* by the identity of its strings array, and rendered against substitution *)
(* values, with components that may return promises.                       *)
(*                                                                         *)
(* JavaScript strings are sequences of one-character strings.  JavaScript  *)
(* values are tagged records: Str, Num, Arr, Fn, Obj, Undef, Node, and     *)
(* PromiseRef for a reference to a promise.                                *)
(***************************************************************************)
EXTENDS Integers, Sequences, FiniteSets, TLC

VARIABLES
  \* transformText on its own (SpecText)
  text, textOut,
  \* resolveAttributes on its own (SpecAttr)
  attributesData, attrSubs, resolved,
  \* the tag functions and their caches (SpecCache)
  cache, parseCount, callCount, last,
  \* one render with asynchronous components (SpecRender)
  data, substitutions, pc, promises, log, result

vars == <<text, textOut, attributesData, attrSubs, resolved,
          cache, parseCount, callCount, last,
          data, substitutions, pc, promises, log, result>>

textVars == <<text, textOut>>
attrVars == <<attributesData, attrSubs, resolved>>
cacheVars == <<cache, parseCount, callCount, last>>
renderVars == <<data, substitutions, pc, promises, log, result>>

(***************************************************************************)
(* JavaScript values                                                       *)
(***************************************************************************)
Str(s) == [t |-> "str", v |-> s]
Num(n) == [t |-> "num", v |-> n]
Arr(a) == [t |-> "arr", v |-> a]
Fn(name) == [t |-> "fn", v |-> name]
Obj(name) == [t |-> "obj", v |-> name]
Undef == [t |-> "undef", v |-> "undefined"]
Node(nameData, attributeData, childrenData) ==
  [t |-> "node", name |-> nameData, attributes |-> attributeData,
   children |-> childrenData]
Idle == [t |-> "idle", v |-> "idle"]

RECURSIVE Flatten(_)
\* The concatenation of a sequence of strings: Array.prototype.join('') of strings.
Flatten(ss) == IF ss = <<>> THEN <<>> ELSE Head(ss) \o Flatten(Tail(ss))

RECURSIVE SeqsUpTo(_, _)
\* All sequences of at most n elements of S.
SeqsUpTo(S, n) ==
  IF n = 0 THEN {<<>>}
  ELSE LET shorter == SeqsUpTo(S, n - 1)
       IN shorter \cup {Append(s, x) : s \in shorter, x \in S}

(***************************************************************************)
(* Marker codec: collapseWhitespace and transformText                      *)
(***************************************************************************)
WhitespaceChars == {" ", "\n"}
DigitChars == {"0", "1", "2", "3", "4", "5", "6", "7", "8", "9"}

RECURSIVE TrimLeft(_)
TrimLeft(s) ==
  IF s # <<>> /\ Head(s) \in WhitespaceChars THEN TrimLeft(Tail(s)) ELSE s

RECURSIVE TrimRight(_)
TrimRight(s) ==
  IF s # <<>> /\ s[Len(s)] \in WhitespaceChars
  THEN TrimRight(SubSeq(s, 1, Len(s) - 1)) ELSE s

\* String.prototype.trim
Trim(s) == TrimRight(TrimLeft(s))

collapseWhitespace(string) ==
  LET hasLeadingSpace == string # <<>> /\ string[1] \in WhitespaceChars
      hasTrailingSpace == string # <<>> /\ string[Len(string)] \in WhitespaceChars
      trimmed == Trim(string)
  IN IF Len(trimmed) = 0
     THEN <<" ">>
     ELSE (IF hasLeadingSpace THEN <<" ">> ELSE <<>>) \o trimmed
          \o (IF hasTrailingSpace THEN <<" ">> ELSE <<>>)

RECURSIVE DigitRun(_, _)
\* The number of digits of s from position i on.
DigitRun(s, i) ==
  IF i <= Len(s) /\ s[i] \in DigitChars THEN 1 + DigitRun(s, i + 1) ELSE 0

\* The length of the match of /\[\[\[(\d+)\]\]\]/ that starts at position i of s,
\* or 0 when the pattern does not match there.
MarkerMatchLen(s, i) ==
  LET d == DigitRun(s, i + 3)
  IN IF /\ i + 2 <= Len(s)
        /\ SubSeq(s, i, i + 2) = <<"[", "[", "[">>
        /\ d >= 1
        /\ i + 5 + d <= Len(s)
        /\ SubSeq(s, i + 3 + d, i + 5 + d) = <<"]", "]", "]">>
     THEN 6 + d
     ELSE 0

RECURSIVE SplitFrom(_, _, _, _)
\* String.prototype.split(markerRegex): the text between the matches, with each
\* match's captured digits in between.
SplitFrom(s, i, current, parts) ==
  IF i > Len(s) THEN Append(parts, current)
  ELSE LET m == MarkerMatchLen(s, i)
       IN IF m > 0
          THEN SplitFrom(s, i + m, <<>>,
                         parts \o <<current, SubSeq(s, i + 3, i + m - 4)>>)
          ELSE SplitFrom(s, i + 1, Append(current, s[i]), parts)

SplitMarkers(s) == SplitFrom(s, 1, <<>>, <<>>)

DigitValue(c) ==
  CASE c = "0" -> 0 [] c = "1" -> 1 [] c = "2" -> 2 [] c = "3" -> 3
    [] c = "4" -> 4 [] c = "5" -> 5 [] c = "6" -> 6 [] c = "7" -> 7
    [] c = "8" -> 8 [] c = "9" -> 9

RECURSIVE parseInt(_)
\* parseInt of a string of decimal digits.
parseInt(digits) ==
  IF digits = <<>> THEN 0
  ELSE 10 * parseInt(SubSeq(digits, 1, Len(digits) - 1))
       + DigitValue(digits[Len(digits)])

\* The filter left out: every part is kept, the empty strings too.
StripEmptyKeepAll(transformed) == transformed

\* transformed.filter(item => typeof item !== 'string' || item.length > 0)
stripEmpty(transformed) ==
  SelectSeq(transformed, LAMBDA item : item.t # "str" \/ Len(item.v) > 0)

transformText(string) ==
  LET trimmed == collapseWhitespace(string)
      parts == SplitMarkers(trimmed)
      transformed == [k \in 1..Len(parts) |->
                        IF (k - 1) % 2 = 0 THEN Str(parts[k])
                        ELSE Num(parseInt(parts[k]))]
      stripped == stripEmpty(transformed)
  IN IF Len(parts) = 1
     THEN Str(trimmed)
     ELSE IF Len(stripped) = 1 /\ stripped[1].t = "num"
          THEN stripped[1]
          ELSE Arr(stripped)

(***************************************************************************)
(* SpecText: transformText applied to bounded texts                        *)
(***************************************************************************)
MaxTokens == 3

Marker0 == <<"[", "[", "[", "0", "]", "]", "]">>
Marker1 == <<"[", "[", "[", "1", "]", "]", "]">>

\* The pieces the texts are built from: letters, white space, brackets, a digit
\* and whole markers.
TextTokens ==
  {<<"a">>, <<" ">>, <<"\n">>, <<"[">>, <<"[", "[", "[">>, <<"]", "]", "]">>,
   <<"1">>, Marker0, Marker1}

Texts == {Flatten(ts) : ts \in SeqsUpTo(TextTokens, MaxTokens)}

InitText ==
  /\ text \in Texts
  /\ textOut = Idle
  /\ attributesData = Idle /\ attrSubs = Idle /\ resolved = Idle
  /\ cache = Idle /\ parseCount = Idle /\ callCount = Idle /\ last = Idle
  /\ data = Idle /\ substitutions = Idle /\ pc = "idle"
  /\ promises = Idle /\ log = Idle /\ result = Idle

TransformText ==
  /\ textOut.t = "idle"
  /\ textOut' = transformText(text)
  /\ UNCHANGED <<text, attrVars, cacheVars, renderVars>>

NextText == TransformText

SpecText == InitText /\ [][NextText]_vars

(***************************************************************************)
(* The decoding of a text, stated without the scan                         *)
(***************************************************************************)
DigitChar(d) ==
  CASE d = 0 -> "0" [] d = 1 -> "1" [] d = 2 -> "2" [] d = 3 -> "3"
    [] d = 4 -> "4" [] d = 5 -> "5" [] d = 6 -> "6" [] d = 7 -> "7"
    [] d = 8 -> "8" [] d = 9 -> "9"

RECURSIVE ToDecimal(_)
ToDecimal(n) ==
  IF n < 10 THEN <<DigitChar(n)>> ELSE ToDecimal(n \div 10) \o <<DigitChar(n % 10)>>

\* The marker that stands for substitution n.
MarkerOf(n) == <<"[", "[", "[">> \o ToDecimal(n) \o <<"]", "]", "]">>

\* s is one whole marker: [[[ digits ]]].
IsMarker(s) ==
  /\ Len(s) >= 7
  /\ SubSeq(s, 1, 3) = <<"[", "[", "[">>
  /\ SubSeq(s, Len(s) - 2, Len(s)) = <<"]", "]", "]">>
  /\ \A k \in 4..(Len(s) - 3) : s[k] \in DigitChars

HasMarker(s) ==
  \E i \in 1..Len(s) : \E j \in i..Len(s) : IsMarker(SubSeq(s, i, j))

\* The text a sequence of literals and indices stands for.
EncodeItems(items) ==
  Flatten([k \in 1..Len(items) |->
             IF items[k].t = "num" THEN MarkerOf(items[k].v) ELSE items[k].v])

\* C5: transformText returns the whitespace-collapsed literal when the text holds
\* no marker, a bare integer when the collapsed text is exactly one marker, and
\* otherwise the sequence of the non-empty literal segments and the indices in
\* their left-to-right order: no empty literal, no literal that still holds a
\* marker, no two literals side by side, and the items spell the collapsed text.
TransformTextDecodes ==
  textOut.t # "idle" =>
    LET c == collapseWhitespace(text)
    IN /\ ~HasMarker(c) => (textOut.t = "str" /\ textOut.v = c)
       /\ IsMarker(c) => (textOut.t = "num" /\ MarkerOf(textOut.v) = c)
       /\ (HasMarker(c) /\ ~IsMarker(c)) =>
            /\ textOut.t = "arr"
            /\ \A k \in 1..Len(textOut.v) :
                 /\ textOut.v[k].t \in {"str", "num"}
                 /\ textOut.v[k].t = "str" =>
                      /\ textOut.v[k].v # <<>>
                      /\ ~HasMarker(textOut.v[k].v)
                      /\ k > 1 => textOut.v[k - 1].t = "num"
            /\ EncodeItems(textOut.v) = c

\* C5's case: '[[[0]]]a[[[1]]]' decoded, the empty segments before the first and
\* after the last marker pruned.
TransformTextWitness ==
  /\ text = Marker0 \o <<"a">> \o Marker1
  /\ textOut = Arr(<<Num(0), Str(<<"a">>), Num(1)>>)

(***************************************************************************)
(* String conversion of JavaScript values                                  *)
(***************************************************************************)
ObjectText ==
  <<"[", "o", "b", "j", "e", "c", "t", " ", "O", "b", "j", "e", "c", "t", "]">>
PromiseText ==
  <<"[", "o", "b", "j", "e", "c", "t", " ", "P", "r", "o", "m", "i", "s", "e", "]">>
UndefinedText == <<"u", "n", "d", "e", "f", "i", "n", "e", "d">>

RECURSIVE ToStringJS(_), ArrayJoin(_, _)
\* String(x), as a template literal's ${x} applies it.
ToStringJS(x) ==
  CASE x.t = "str" -> x.v
    [] x.t = "num" -> ToDecimal(x.v)
    [] x.t = "undef" -> UndefinedText
    [] x.t = "obj" -> ObjectText
    [] x.t = "promise" -> PromiseText
    [] x.t = "arr" -> ArrayJoin(x.v, <<",">>)

\* Array.prototype.join(sep): undefined elements give the empty string.
ArrayJoin(a, sep) ==
  IF a = <<>> THEN <<>>
  ELSE (IF Head(a).t = "undef" THEN <<>> ELSE ToStringJS(Head(a)))
       \o (IF Len(a) > 1 THEN sep ELSE <<>>)
       \o ArrayJoin(Tail(a), sep)

(***************************************************************************)
(* Attribute resolver                                                      *)
(***************************************************************************)
\* substitutions[index]: undefined past the end of the array.
SubstAt(subs, index) ==
  IF index + 1 \in DOMAIN subs THEN subs[index + 1] ELSE Undef

renderValueToText(value) == value

\* render of a string or of an index, with the text renderers.
renderLeaf(item, subs) ==
  IF item.t = "str" THEN renderValueToText(item)
  ELSE renderValueToText(SubstAt(subs, item.v))

\* The parts joined with join()'s default separator, a comma.
resolveMultiPartCommas(value, subs) ==
  Str(ArrayJoin([k \in 1..Len(value.v) |-> renderLeaf(value.v[k], subs)], <<",">>))

\* Multi-part attribute: resolve each part and concatenate the results.
resolveMultiPart(value, subs) ==
  Str(ArrayJoin([k \in 1..Len(value.v) |-> renderLeaf(value.v[k], subs)], <<>>))

\* attributesData is the list of [name, value] entries in insertion order.
resolveAttributes(attrs, subs) ==
  [k \in 1..Len(attrs) |->
     [name |-> attrs[k].name,
      value |-> IF attrs[k].value.t = "arr"
                THEN resolveMultiPart(attrs[k].value, subs)
                ELSE renderLeaf(attrs[k].value, subs)]]

(***************************************************************************)
(* SpecAttr: resolveAttributes applied to bounded attributes               *)
(***************************************************************************)
MaxAttrTokens == 3
MaxSubs == 2

AttrTokens == {<<"a">>, <<" ">>, Marker0, Marker1}

\* The attribute values the transformer produces: transformText of the
\* attribute's text.
AttrValues == {transformText(Flatten(ts)) : ts \in SeqsUpTo(AttrTokens, MaxAttrTokens)}

ClassName == <<"c", "l", "a", "s", "s">>
IdName == <<"i", "d">>

AttributeMaps ==
  {<<[name |-> ClassName, value |-> a]>> : a \in AttrValues}
  \cup {<<[name |-> ClassName, value |-> Num(0)], [name |-> IdName, value |-> b]>> :
          b \in {Str(<<"a">>), Num(1), Arr(<<Num(0), Str(<<" ", "a">>)>>)}}

SubstitutionValues ==
  {Str(<<"x">>), Str(<<>>), Obj("name"), Num(7), Arr(<<Str(<<"h">>), Str(<<"w">>)>>)}

SubstitutionLists == SeqsUpTo(SubstitutionValues, MaxSubs)

InitAttr ==
  /\ attributesData \in AttributeMaps
  /\ attrSubs \in SubstitutionLists
  /\ resolved = Idle
  /\ text = Idle /\ textOut = Idle
  /\ cache = Idle /\ parseCount = Idle /\ callCount = Idle /\ last = Idle
  /\ data = Idle /\ substitutions = Idle /\ pc = "idle"
  /\ promises = Idle /\ log = Idle /\ result = Idle

ResolveAttributes ==
  /\ resolved.t = "idle"
  /\ resolved' = Arr(resolveAttributes(attributesData, attrSubs))
  /\ UNCHANGED <<attributesData, attrSubs, textVars, cacheVars, renderVars>>

NextAttr == ResolveAttributes

SpecAttr == InitAttr /\ [][NextAttr]_vars

\* The indices an attribute value holds.
AttrIndices(value) ==
  CASE value.t = "num" -> {value.v}
    [] value.t = "arr" -> {value.v[k].v : k \in {j \in 1..Len(value.v) : value.v[j].t = "num"}}
    [] OTHER -> {}

AttrIndicesInRange ==
  \A k \in 1..Len(attributesData) :
    \A i \in AttrIndices(attributesData[k].value) : i < Len(attrSubs)

\* C9 as claimed: with every index in range, every attribute resolves to a
\* definite string, whatever the shape of its value and whatever the substitution.
AttributesResolveToStrings ==
  (resolved.t = "arr" /\ AttrIndicesInRange) =>
    \A k \in 1..Len(resolved.v) : resolved.v[k].value.t = "str"

\* The text of one part of a multi-part value, as the join takes it.
PartText(part, subs) ==
  IF part.t = "str" THEN part.v
  ELSE IF part.v >= Len(subs) THEN <<>>
  ELSE ToStringJS(subs[part.v + 1])

\* C9 as amended: every attribute keeps its name; a literal resolves to itself,
\* a multi-part value to one string, the texts of its parts in their order with
\* nothing in between, and a single index to the substitution value itself,
\* not converted to a string.
AttributesResolve ==
  resolved.t = "arr" =>
    /\ Len(resolved.v) = Len(attributesData)
    /\ \A k \in 1..Len(resolved.v) :
         LET a == attributesData[k].value
             r == resolved.v[k].value
         IN /\ resolved.v[k].name = attributesData[k].name
            /\ a.t = "str" => r = a
            /\ a.t = "num" =>
                 r = IF a.v < Len(attrSubs) THEN attrSubs[a.v + 1] ELSE Undef
            /\ a.t = "arr" =>
                 /\ r.t = "str"
                 /\ r.v = Flatten([j \in 1..Len(a.v) |-> PartText(a.v[j], attrSubs)])

\* C9's case: class="[[[0]]]a[[[1]]]" with an object and a string resolved to
\* one string.
AttributesResolveWitness ==
  /\ resolved.t = "arr"
  /\ attributesData =
       <<[name |-> ClassName,
          value |-> Arr(<<Num(0), Str(<<"a">>), Num(1)>>)]>>
  /\ attrSubs = <<Obj("name"), Str(<<"x">>)>>
  /\ resolved.v[1].value = Str(ObjectText \o <<"a", "x">>)

(***************************************************************************)
(* Tree transformer: DOM nodes to the positional tree                      *)
(***************************************************************************)
\* A JavaScript string written as a TLA+ string.
Chars(str) == [i \in 1..Len(str) |-> SubSeq(str, i, i)]

\* The names the code spells out.
DocumentFragmentName == Chars("DocumentFragment")
DocumentTypeName == Chars("DocumentType")
ProcessingInstructionName == Chars("ProcessingInstruction")
ParserErrorName == Chars("parsererror")
BoldName == Chars("Bold")
ItalicName == Chars("Italic")

\* What DOMParser returns: text nodes, elements, comments.
TextNode(content) ==
  [nodeType |-> 3, nodeName |-> Chars("#text"), textContent |-> content]
CommentNode(content) ==
  [nodeType |-> 8, nodeName |-> Chars("#comment"), textContent |-> content]
Element(name, attrs, children) ==
  [nodeType |-> 1, nodeName |-> name, localName |-> name, attributes |-> attrs,
   childNodes |-> children]
Attribute(name, value) == [name |-> name, value |-> value]

RECURSIVE textContent(_)
textContent(node) ==
  IF node.nodeType = 1
  THEN Flatten([k \in 1..Len(node.childNodes) |-> textContent(node.childNodes[k])])
  ELSE node.textContent

\* A function's result: a value returned or an error thrown.
Return(value) == [ok |-> TRUE, value |-> value]
Throw(error) == [ok |-> FALSE, error |-> error]

LowerCase == Chars("abcdefghijklmnopqrstuvwxyz")
UpperCase == Chars("ABCDEFGHIJKLMNOPQRSTUVWXYZ")

\* String.prototype.toUpperCase of one character.
toUpperCase(c) ==
  IF \E i \in 1..26 : LowerCase[i] = c
  THEN UpperCase[CHOOSE i \in 1..26 : LowerCase[i] = c]
  ELSE c

\* object[name]: undefined when the object has no such property.
Lookup(object, name) == IF name \in DOMAIN object THEN object[name] ELSE Undef

\* Object.assign({}, a, b)
Assign(a, b) ==
  [n \in DOMAIN a \cup DOMAIN b |-> IF n \in DOMAIN b THEN b[n] ELSE a[n]]

EmptyObject == [n \in {} |-> Undef]

defaultClassMap ==
  [n \in {DocumentFragmentName, DocumentTypeName, ProcessingInstructionName} |->
     CASE n = DocumentFragmentName -> Fn("DocumentFragment")
       [] n = DocumentTypeName -> Fn("DocumentType")
       [] n = ProcessingInstructionName -> Fn("ProcessingInstruction")]

\* The bindings of the global object that the templates name: the tests set
\* self.Bold.
global == [n \in {BoldName} |-> Fn("Bold")]

\* The values JavaScript takes as false among those a tree or a lookup can be.
Falsy(x) ==
  \/ x.t = "undef"
  \/ (x.t = "num" /\ x.v = 0)
  \/ (x.t = "str" /\ x.v = <<>>)

transformAttributes(attributes) ==
  [k \in 1..Len(attributes) |->
     [name |-> attributes[k].name, value |-> transformText(attributes[k].value)]]

transformDocumentType(node, classMap) ==
  Node(Lookup(classMap, DocumentTypeName),
       <<[name |-> Chars("name"), value |-> Str(node.name)]>>, <<>>)

transformProcessingInstruction(node, classMap) ==
  Node(Lookup(classMap, ProcessingInstructionName),
       <<[name |-> Chars("data"), value |-> Str(node.data)],
         [name |-> Chars("target"), value |-> Str(node.target)]>>, <<>>)

NotFoundPrefix == Chars("Couldn't find definition for \"")
NotFoundSuffix == Chars("\".")
NotFoundError(localName) == NotFoundPrefix \o localName \o NotFoundSuffix

\* localName[0] of a node that has no localName (a comment).
TypeError == Chars("TypeError: Cannot read properties of null (reading '0')")

\* classMap[localName] || global[localName], or the local name itself.
resolveNameAsElement(localName, classMap) ==
  LET isClassName == localName[1] = toUpperCase(localName[1])
      fromMap == Lookup(classMap, localName)
      found == IF Falsy(fromMap) THEN Lookup(global, localName) ELSE fromMap
  IN IF isClassName /\ ~Falsy(found) THEN found ELSE Str(localName)

resolveName(localName, classMap) ==
  LET isClassName == localName[1] = toUpperCase(localName[1])
      fromMap == Lookup(classMap, localName)
  IN IF isClassName
     THEN IF Falsy(fromMap) THEN Lookup(global, localName) ELSE fromMap
     ELSE Str(localName)

RECURSIVE transformNode(_, _), transformNodes(_, _), transformNodesFrom(_, _, _, _)
transformNode(node, classMap) ==
  IF node.nodeType = 3 THEN Return(transformText(node.textContent))
  ELSE IF node.nodeType = 7
  THEN Return(transformProcessingInstruction(node, classMap))
  ELSE IF node.nodeType = 10 THEN Return(transformDocumentType(node, classMap))
  ELSE IF node.nodeType # 1 THEN Throw(TypeError)
  ELSE LET nameData == resolveName(node.localName, classMap)
       IN IF Falsy(nameData) THEN Throw(NotFoundError(node.localName))
          ELSE LET attributeData == transformAttributes(node.attributes)
                   childrenData == transformNodes(node.childNodes, classMap)
               IN IF childrenData.ok
                  THEN Return(Node(nameData, attributeData, childrenData.value))
                  ELSE childrenData

\* The forEach of transformNodes from child k on, with the result so far: a
\* text node's transformed value is concatenated (an array is spliced in), any
\* other is pushed.
transformNodesFrom(nodes, classMap, k, acc) ==
  IF k > Len(nodes) THEN Return(acc)
  ELSE LET transformed == transformNode(nodes[k], classMap)
       IN IF ~transformed.ok THEN transformed
          ELSE transformNodesFrom(nodes, classMap, k + 1,
                 IF nodes[k].nodeType = 3 /\ transformed.value.t = "arr"
                 THEN acc \o transformed.value.v
                 ELSE Append(acc, transformed.value))

transformNodes(nodes, classMap) == transformNodesFrom(nodes, classMap, 1, <<>>)

(***************************************************************************)
(* Templates and the DOM parser                                            *)
(***************************************************************************)
TemplateIds ==
  {"single", "single2", "only", "flatten", "embedded", "missing", "bad",
   "italic", "multi", "attr", "comment"}

\* The strings array of each template literal; the id is the array's identity
\* ("single" and "single2" are two arrays with the same strings).
TemplateStringsTable ==
  [id \in TemplateIds |->
  CASE id \in {"single", "single2"} -> <<Chars("<div>"), Chars("</div>")>>
    [] id = "only" -> <<Chars(""), Chars("")>>
    [] id = "flatten" ->
         <<Chars("<div><img src=\"foo.jpg\"/><i>Hello, </i><b>"), Chars("</b></div>")>>
    [] id = "embedded" -> <<Chars("<span>Hello, <Bold>"), Chars("</Bold>.</span>")>>
    [] id = "missing" -> <<Chars("<p><Missing>"), Chars("</Missing></p>")>>
    [] id = "bad" -> <<Chars("<div>"), Chars("</span>")>>
    [] id = "italic" -> <<Chars("<Italic>foo</Italic>")>>
    [] id = "multi" -> <<Chars("<Bold>"), Chars("</Bold><Bold>"), Chars("</Bold>")>>
    [] id = "attr" -> <<Chars("<div class=\""), Chars(" bar\"></div>")>>
    [] id = "comment" -> <<Chars("<!-- Hello -->")>>]

TemplateStrings(id) == TemplateStringsTable[id]

WrapOpen == Chars("<DocumentFragment>")
WrapClose == Chars("</DocumentFragment>")
Wrap(trimmed) == WrapOpen \o trimmed \o WrapClose

Wrapper(children) == Element(DocumentFragmentName, <<>>, children)
Document(wrapperNode) == [firstChild |-> wrapperNode]

\* domParser.parseFromString(wrapped, 'text/xml') for the wrapped texts of the
\* templates: the document of a well-formed text, and for a malformed one a
\* document whose wrapper holds a parsererror node.
ParserTable ==
  {
    <<Wrap(Chars("<div>[[[0]]]</div>")),
         Document(Wrapper(<<Element(Chars("div"), <<>>, <<TextNode(Marker0)>>)>>))>>,
    <<Wrap(Chars("[[[0]]]")),
         Document(Wrapper(<<TextNode(Marker0)>>))>>,
    <<Wrap(Chars("<div><img src=\"foo.jpg\"/><i>Hello, </i><b>[[[0]]]</b></div>")),
         Document(Wrapper(<<Element(Chars("div"), <<>>,
           <<Element(Chars("img"), <<Attribute(Chars("src"), Chars("foo.jpg"))>>, <<>>),
             Element(Chars("i"), <<>>, <<TextNode(Chars("Hello, "))>>),
             Element(Chars("b"), <<>>, <<TextNode(Marker0)>>)>>)>>))>>,
    <<Wrap(Chars("<span>Hello, <Bold>[[[0]]]</Bold>.</span>")),
         Document(Wrapper(<<Element(Chars("span"), <<>>,
           <<TextNode(Chars("Hello, ")),
             Element(Chars("Bold"), <<>>, <<TextNode(Marker0)>>),
             TextNode(Chars("."))>>)>>))>>,
    <<Wrap(Chars("<p><Missing>[[[0]]]</Missing></p>")),
         Document(Wrapper(<<Element(Chars("p"), <<>>,
           <<Element(Chars("Missing"), <<>>, <<TextNode(Marker0)>>)>>)>>))>>,
    <<Wrap(Chars("<div>[[[0]]]</span>")),
         Document(Wrapper(<<Element(Chars("parsererror"), <<>>,
           <<TextNode(Chars("closing tag span does not match div"))>>)>>))>>,
    <<Wrap(Chars("<Italic>foo</Italic>")),
         Document(Wrapper(<<Element(Chars("Italic"), <<>>, <<TextNode(Chars("foo"))>>)>>))>>,
    <<Wrap(Chars("<Bold>[[[0]]]</Bold><Bold>[[[1]]]</Bold>")),
         Document(Wrapper(<<Element(Chars("Bold"), <<>>, <<TextNode(Marker0)>>),
                            Element(Chars("Bold"), <<>>, <<TextNode(Marker1)>>)>>))>>,
    <<Wrap(Chars("<div class=\"[[[0]]] bar\"></div>")),
         Document(Wrapper(<<Element(Chars("div"),
           <<Attribute(Chars("class"), Marker0 \o Chars(" bar"))>>, <<>>)>>))>>,
    <<Wrap(Chars("<!-- Hello -->")),
         Document(Wrapper(<<CommentNode(Chars(" Hello "))>>))>>,
    <<Wrap(Chars("<span> <Async delay=\"200\">One</Async> <Async delay=\"100\">Two</Async> </span>")),
         Document(Wrapper(<<Element(Chars("span"), <<>>,
           <<TextNode(Chars(" ")),
             Element(Chars("Async"), <<Attribute(Chars("delay"), Chars("200"))>>,
                     <<TextNode(Chars("One"))>>),
             TextNode(Chars(" ")),
             Element(Chars("Async"), <<Attribute(Chars("delay"), Chars("100"))>>,
                     <<TextNode(Chars("Two"))>>),
             TextNode(Chars(" "))>>)>>))>>,
    <<Wrap(Chars("<div><Bold><Async>[[[0]]]</Async></Bold>!</div>")),
         Document(Wrapper(<<Element(Chars("div"), <<>>,
           <<Element(Chars("Bold"), <<>>,
               <<Element(Chars("Async"), <<>>, <<TextNode(Marker0)>>)>>),
             TextNode(Chars("!"))>>)>>))>>,
    <<Wrap(Chars("<Async><Async>a</Async>[[[0]]]</Async>")),
         Document(Wrapper(<<Element(Chars("Async"), <<>>,
           <<Element(Chars("Async"), <<>>, <<TextNode(Chars("a"))>>),
             TextNode(Marker0)>>)>>))>>,
    <<Wrap(Chars("<Async>[[[0]]]</Async><Bold>[[[1]]]</Bold>")),
         Document(Wrapper(<<Element(Chars("Async"), <<>>, <<TextNode(Marker0)>>),
                            Element(Chars("Bold"), <<>>, <<TextNode(Marker1)>>)>>))>>,
    <<Wrap(Chars("<p><Async>a</Async><Async>b</Async><Async>c</Async></p>")),
         Document(Wrapper(<<Element(Chars("p"), <<>>,
           <<Element(Chars("Async"), <<>>, <<TextNode(Chars("a"))>>),
             Element(Chars("Async"), <<>>, <<TextNode(Chars("b"))>>),
             Element(Chars("Async"), <<>>, <<TextNode(Chars("c"))>>)>>)>>))>>,
    <<Wrap(Chars("<Async>test</Async>")),
         Document(Wrapper(<<Element(Chars("Async"), <<>>, <<TextNode(Chars("test"))>>)>>))>>
  }

parseFromString(wrapped) ==
  (CHOOSE row \in ParserTable : row[1] = wrapped)[2]

\* The text of the error node, which is the wrapper's first child or first
\* grandchild, or null (Undef here).
findDOMParserError(node) ==
  LET isErrorNode(n) == n.t # "undef" /\ n.v.nodeName = ParserErrorName
      Some(n) == [t |-> "dom", v |-> n]
      child == IF node.nodeType = 1 /\ Len(node.childNodes) > 0
               THEN Some(node.childNodes[1]) ELSE Undef
      grandchild == IF child.t # "undef" /\ child.v.nodeType = 1
                       /\ Len(child.v.childNodes) > 0
                    THEN Some(child.v.childNodes[1]) ELSE Undef
  IN IF isErrorNode(child) THEN Str(textContent(child.v))
     ELSE IF isErrorNode(grandchild) THEN Str(textContent(grandchild.v))
     ELSE Undef

parseJSX(jsx, classMap) ==
  LET trimmed == Trim(jsx)
      wrapped == Wrap(trimmed)
      extendedClassMap == Assign(defaultClassMap, classMap)
      doc == parseFromString(wrapped)
      wrapperNode == doc.firstChild
      error == findDOMParserError(wrapperNode)
      node == IF Len(wrapperNode.childNodes) = 1
              THEN wrapperNode.childNodes[1] ELSE wrapperNode
  IN IF ~Falsy(error) THEN Throw(error.v)
     ELSE transformNode(node, extendedClassMap)

\* The strings joined, with the marker of its index after each but the last.
parse(strings, classMap) ==
  LET jsx == Flatten([k \in 1..Len(strings) |->
                        strings[k] \o (IF k - 1 < Len(strings) - 1
                                       THEN MarkerOf(k - 1) ELSE <<>>)])
  IN parseJSX(jsx, classMap)

\* cache.get(strings): undefined when the map has no entry for the array.
cacheGet(c, id) == IF id \in DOMAIN c THEN c[id] ELSE Undef

\* cache.set(strings, data)
cacheSet(c, id, value) ==
  [k \in DOMAIN c \cup {id} |-> IF k = id THEN value ELSE c[k]]

\* A failed parse remembered too: the error is stored as the entry.
parseAndCacheStoringFailure(id, classMap, c) ==
  LET found == cacheGet(c, id)
      parsed == parse(TemplateStrings(id), classMap)
  IN IF ~Falsy(found)
     THEN [outcome |-> Return(found), cache |-> c, parsed |-> FALSE]
     ELSE [outcome |-> parsed,
           cache |-> cacheSet(c, id, IF parsed.ok THEN parsed.value
                                     ELSE Str(parsed.error)),
           parsed |-> TRUE]

\* The outcome (the data returned or the error thrown), the cache afterwards
\* and whether parse ran.
parseAndCache(id, classMap, c) ==
  LET found == cacheGet(c, id)
      parsed == parse(TemplateStrings(id), classMap)
  IN IF ~Falsy(found)
     THEN [outcome |-> Return(found), cache |-> c, parsed |-> FALSE]
     ELSE IF parsed.ok
          THEN [outcome |-> parsed, cache |-> cacheSet(c, id, parsed.value),
                parsed |-> TRUE]
          ELSE [outcome |-> parsed, cache |-> c, parsed |-> TRUE]

(***************************************************************************)
(* SpecCache: calls of the tag functions                                   *)
(***************************************************************************)
MaxCalls == 3

\* jsxToText, with the default cache and no class map, and html, a function
\* returned by jsxToTextWith({ Italic }), with a cache of its own.
TagFunctions == {"jsxToText", "html"}

classMapOf(f) ==
  IF f = "jsxToText" THEN EmptyObject
  ELSE [n \in {ItalicName} |-> Fn("Italic")]

\* The calls the program makes: every template with jsxToText, some with html.
CallSites ==
  ({"jsxToText"} \X TemplateIds)
  \cup ({"html"} \X {"italic", "single", "only", "missing"})

TotalCalls ==
  LET RECURSIVE Sum(_)
      Sum(S) == IF S = {} THEN 0
                ELSE LET x == CHOOSE y \in S : TRUE
                     IN callCount[x[1]][x[2]] + Sum(S \ {x})
  IN Sum(CallSites)

InitCache ==
  /\ cache = [f \in TagFunctions |-> EmptyObject]
  /\ parseCount = [f \in TagFunctions |-> [id \in TemplateIds |-> 0]]
  /\ callCount = [f \in TagFunctions |-> [id \in TemplateIds |-> 0]]
  /\ last = Idle
  /\ text = Idle /\ textOut = Idle
  /\ attributesData = Idle /\ attrSubs = Idle /\ resolved = Idle
  /\ data = Idle /\ substitutions = Idle /\ pc = "idle"
  /\ promises = Idle /\ log = Idle /\ result = Idle

\* One call f`...` of a tag function on the template literal id.
Call(f, id) ==
  /\ TotalCalls < MaxCalls
  /\ LET r == parseAndCache(id, classMapOf(f), cache[f])
     IN /\ cache' = [cache EXCEPT ![f] = r.cache]
        /\ parseCount' = [parseCount EXCEPT ![f][id] = @ + (IF r.parsed THEN 1 ELSE 0)]
        /\ callCount' = [callCount EXCEPT ![f][id] = @ + 1]
        /\ last' = [t |-> "call", f |-> f, id |-> id, outcome |-> r.outcome,
                    parsed |-> r.parsed]
  /\ UNCHANGED <<textVars, attrVars, renderVars>>

NextCache == \E site \in CallSites : Call(site[1], site[2])

SpecCache == InitCache /\ [][NextCache]_vars

(***************************************************************************)
(* Properties of the cache and of the transformer                          *)
(***************************************************************************)
\* Whether the cache of tag function f holds an entry for the strings array id.
Cached(f, id) == id \in DOMAIN cache[f]

\* C2 as claimed: a template that parses successfully is parsed exactly once per
\* tag function however often it is called, and a call that did not parse
\* got the cached tree.
ParsedExactlyOnce ==
  /\ \A site \in CallSites :
       Cached(site[1], site[2]) => parseCount[site[1]][site[2]] = 1
  /\ (last.t = "call" /\ last.outcome.ok) =>
       /\ Cached(last.f, last.id)
       /\ last.outcome.value = cache[last.f][last.id]

\* C7: a call whose parse fails leaves the cache as it was, with no entry for
\* that strings array, the error reaches the caller, and every call with that
\* array has run parse again.
FailedParseLeavesCache ==
  [][(callCount' # callCount /\ ~last'.outcome.ok) =>
       /\ cache' = cache
       /\ last'.id \notin DOMAIN cache'[last'.f]
       /\ last'.parsed
       /\ parseCount'[last'.f][last'.id] = callCount'[last'.f][last'.id]]_vars

\* C7's case: the template with an unresolved tag called twice, parsed twice,
\* the second call failing like the first.
FailedParseWitness ==
  /\ callCount["jsxToText"]["missing"] = 2
  /\ parseCount["jsxToText"]["missing"] = 2
  /\ last.t = "call" /\ last.id = "missing" /\ ~last.outcome.ok
  /\ ~Cached("jsxToText", "missing")

\* The document the DOM parser gives for a template.
TemplateDocument(id) ==
  LET strings == TemplateStrings(id)
      jsx == Flatten([k \in 1..Len(strings) |->
                        strings[k] \o (IF k < Len(strings) THEN MarkerOf(k - 1) ELSE <<>>)])
  IN parseFromString(Wrap(Trim(jsx))).firstChild

RECURSIVE ElementNames(_)
\* The local names of the elements of a DOM tree.
ElementNames(node) ==
  IF node.nodeType # 1 THEN {}
  ELSE {node.localName}
       \cup UNION {ElementNames(node.childNodes[k]) : k \in 1..Len(node.childNodes)}

UpperCaseLetters == {UpperCase[i] : i \in 1..26}

\* The capitalized tag names of a template that neither the class map of f,
\* nor the built-in classes, nor the global object define.
Unresolved(f, id) ==
  {n \in ElementNames(TemplateDocument(id)) :
     /\ n[1] \in UpperCaseLetters
     /\ n \notin DOMAIN classMapOf(f)
     /\ n \notin {DocumentFragmentName, DocumentTypeName, ProcessingInstructionName}
     /\ n \notin DOMAIN global}

\* C8: a call on a template with an unresolved capitalized tag name fails with
\* the error that names such a tag, and no tree is returned or cached.
UnresolvedNameFails ==
  (last.t = "call" /\ Unresolved(last.f, last.id) # {}) =>
    /\ ~last.outcome.ok
    /\ \E n \in Unresolved(last.f, last.id) : last.outcome.error = NotFoundError(n)
    /\ ~Cached(last.f, last.id)

\* C8's case: <p><Missing>...</Missing></p> failed, naming Missing.
UnresolvedNameWitness ==
  /\ last.t = "call" /\ last.id = "missing" /\ ~last.outcome.ok
  /\ last.outcome.error = Chars("Couldn't find definition for \"Missing\".")

RECURSIVE HasIndex(_)
\* Whether a positional tree holds a substitution index.
HasIndex(tree) ==
  CASE tree.t = "num" -> TRUE
    [] tree.t = "arr" -> \E k \in 1..Len(tree.v) : HasIndex(tree.v[k])
    [] tree.t = "node" ->
         \/ \E k \in 1..Len(tree.attributes) : HasIndex(tree.attributes[k].value)
         \/ \E k \in 1..Len(tree.children) : HasIndex(tree.children[k])
    [] OTHER -> FALSE

RECURSIVE StaticElementsFlattened(_)
\* No child of the tree is a structured element node without substitutions.
StaticElementsFlattened(tree) ==
  tree.t = "node" =>
    \A k \in 1..Len(tree.children) :
      LET child == tree.children[k]
      IN /\ (child.t = "node" /\ child.name.t = "str") => HasIndex(child)
         /\ StaticElementsFlattened(child)

\* C4 as claimed: in a parsed tree the static sibling elements are flattened
\* into one literal string and only a sibling that holds a substitution stays a
\* node: <div><img src="foo.jpg"/><i>Hello, </i><b>${0}</b></div> gives
\* ['div', {}, ['<img src="foo.jpg"><i>Hello, </i>', ['b', {}, [0]]]].
StaticSiblingsFlattened ==
  /\ \A site \in CallSites :
       Cached(site[1], site[2]) => StaticElementsFlattened(cache[site[1]][site[2]])
  /\ Cached("jsxToText", "flatten") =>
       cache["jsxToText"]["flatten"] =
         Node(Str(Chars("div")), <<>>,
              <<Str(Chars("<img src=\"foo.jpg\"><i>Hello, </i>")),
                Node(Str(Chars("b")), <<>>, <<Num(0)>>)>>)

(***************************************************************************)
(* Renderer core                                                           *)
(***************************************************************************)
\* Promises: the one an asynchronous component returns ("comp"), the one of
\* Promise.all(rendered).then(...) in renderChildren ("kids") and the one of
\* awaitedChildren.then(...) in render ("node"), each named by the path of the
\* tree node it was made for; and a promise the caller passes as a substitution
\* value ("subst"), named by its index.
PromiseId(kind, path) == [kind |-> kind, at |-> path]
PromiseRef(id) == [t |-> "promise", v |-> id]
Failure(path) == [t |-> "error", v |-> path]

Pending == [state |-> "pending", value |-> Undef]

\* promises with one more promise, or one promise changed.
WithPromise(ps, id, p) == [k \in DOMAIN ps \cup {id} |-> IF k = id THEN p ELSE ps[k]]

RECURSIVE NodeAtFrom(_, _)
NodeAtFrom(tree, path) ==
  IF path = <<>> THEN tree ELSE NodeAtFrom(tree.children[Head(path)], Tail(path))

\* The node of the tree being rendered at a path of child positions.
NodeAt(path) == NodeAtFrom(data, path)

renderChildrenToText(children) == Str(ArrayJoin(children, <<>>))

renderElementToText(tag, attributes, children) ==
  LET attributeText ==
        Flatten([k \in 1..Len(attributes) |->
                   <<" ">> \o attributes[k].name \o <<"=", "\"">>
                   \o ToStringJS(attributes[k].value) \o <<"\"">>])
  IN Str(<<"<">> \o tag.v \o attributeText \o <<">">> \o ToStringJS(children)
         \o <<"<", "/">> \o tag.v \o <<">">>)

\* props[name] of Object.assign({}, attributes, { children }).
PropsGet(props, name) ==
  IF name = Chars("children") THEN props.children
  ELSE IF \E k \in 1..Len(props.attributes) : props.attributes[k].name = name
  THEN props.attributes[CHOOSE k \in 1..Len(props.attributes) :
                          props.attributes[k].name = name].value
  ELSE Undef

ChildrenName == Chars("children")

\* The components: what each returns for its props, at once or, for Async, as
\* the value its promise is fulfilled with.
component(fn, props) ==
  LET children == PropsGet(props, ChildrenName)
  IN CASE fn = "DocumentFragment" -> [async |-> FALSE, value |-> children]
       [] fn = "DocumentType" ->
            [async |-> FALSE,
             value |-> Str(Chars("<!doctype ") \o ToStringJS(PropsGet(props, Chars("name")))
                           \o <<">">>)]
       [] fn = "ProcessingInstruction" ->
            [async |-> FALSE,
             value |-> Str(<<"<", "!">> \o ToStringJS(PropsGet(props, Chars("target")))
                           \o <<" ">> \o ToStringJS(PropsGet(props, Chars("data")))
                           \o <<">">>)]
       [] fn = "Bold" ->
            [async |-> FALSE,
             value |-> Str(Chars("<b>") \o ToStringJS(children) \o Chars("</b>"))]
       [] fn = "Italic" ->
            [async |-> FALSE,
             value |-> Str(Chars("<i>") \o ToStringJS(children) \o Chars("</i>"))]
       [] fn = "Async" ->
            [async |-> TRUE,
             value |-> Str(<<"[">> \o ToStringJS(children) \o <<"]">>)]

\* renderComponent or renderers.element on node path with its rendered children;
\* st is the promises and the log so far.
topRenderer(path, nameData, attributes, children, st) ==
  IF nameData.t = "fn"
  THEN LET props == [attributes |-> attributes, children |-> children]
           call == [ev |-> "component", at |-> path, name |-> nameData,
                    attributes |-> attributes, children |-> children]
           returned == component(nameData.v, props)
       IN IF returned.async
          THEN [res |-> PromiseRef(PromiseId("comp", path)),
                st |-> [promises |-> WithPromise(st.promises, PromiseId("comp", path),
                                       [state |-> "pending", value |-> Undef,
                                        will |-> returned.value]),
                        log |-> Append(st.log, call)]]
          ELSE [res |-> returned.value,
                st |-> [st EXCEPT !.log = Append(st.log, call)]]
  ELSE [res |-> renderElementToText(nameData, attributes, children),
        st |-> [st EXCEPT !.log =
                  Append(st.log, [ev |-> "element", at |-> path, name |-> nameData,
                                  attributes |-> attributes, children |-> children])]]

RECURSIVE render(_, _), renderChildren(_, _), renderEach(_, _, _, _)
\* render of the node at path: the value or the promise returned, and the
\* promises and the log afterwards.
render(path, st) ==
  LET d == NodeAt(path)
  IN IF d.t = "str" THEN [res |-> renderValueToText(d), st |-> st]
     ELSE IF d.t = "num"
     THEN [res |-> renderValueToText(SubstAt(substitutions, d.v)), st |-> st]
     ELSE LET resolvedAttributes == resolveAttributes(d.attributes, substitutions)
              awaitedChildren == renderChildren(path, st)
          IN IF awaitedChildren.res.t = "promise"
             THEN [res |-> PromiseRef(PromiseId("node", path)),
                   st |-> [awaitedChildren.st EXCEPT !.promises =
                             WithPromise(@, PromiseId("node", path),
                                         [state |-> "pending", value |-> Undef,
                                          adopts |-> Undef])]]
             ELSE topRenderer(path, d.name, resolvedAttributes,
                              awaitedChildren.res, awaitedChildren.st)

\* childrenData.map(child => render(child, ...)) from child k on.
renderEach(path, k, rendered, st) ==
  IF k > Len(NodeAt(path).children) THEN [res |-> rendered, st |-> st]
  ELSE LET r == render(Append(path, k), st)
       IN renderEach(path, k + 1, Append(rendered, r.res), r.st)

renderChildren(path, st) ==
  LET mapped == renderEach(path, 1, <<>>, st)
      rendered == mapped.res
      anyPromises == \E k \in 1..Len(rendered) : rendered[k].t = "promise"
  IN IF anyPromises
     THEN [res |-> PromiseRef(PromiseId("kids", path)),
           st |-> [mapped.st EXCEPT !.promises =
                     WithPromise(@, PromiseId("kids", path),
                                 [state |-> "pending", value |-> Undef,
                                  inputs |-> rendered])]]
     ELSE [res |-> renderChildrenToText(rendered),
           st |-> [mapped.st EXCEPT !.log =
                     Append(@, [ev |-> "children", at |-> path, args |-> rendered])]]

(***************************************************************************)
(* SpecRender: one render, its promises settling in any order              *)
(***************************************************************************)
RenderTemplateIds ==
  {"pair", "nested", "sync", "chain", "roots", "attr", "three", "top", "only"}

RenderTemplateStrings ==
  [id \in RenderTemplateIds |->
     CASE id = "pair" ->
            <<Chars("<span> <Async delay=\"200\">One</Async> <Async delay=\"100\">Two</Async> </span>")>>
       [] id = "nested" -> <<Chars("<div><Bold><Async>"), Chars("</Async></Bold>!</div>")>>
       [] id = "sync" -> TemplateStrings("embedded")
       [] id = "chain" -> <<Chars("<Async><Async>a</Async>"), Chars("</Async>")>>
       [] id = "roots" -> <<Chars("<Async>"), Chars("</Async><Bold>"), Chars("</Bold>")>>
       [] id = "attr" -> TemplateStrings("attr")
       [] id = "three" -> <<Chars("<p><Async>a</Async><Async>b</Async><Async>c</Async></p>")>>
       [] id = "top" -> <<Chars("<Async>test</Async>")>>
       [] id = "only" -> TemplateStrings("only")]

\* jsxToTextWith({ Async })
AsyncName == Chars("Async")
asyncClassMap == [n \in {AsyncName} |-> Fn("Async")]

\* The tree of each template, as parse returns it.
RenderTree == [id \in RenderTemplateIds |-> parse(RenderTemplateStrings[id], asyncClassMap).value]
RenderTrees == {RenderTree[id] : id \in RenderTemplateIds}

\* A substitution value that is a promise, to be fulfilled with 'z'.
SubstPromise(index) == PromiseRef(PromiseId("subst", <<index>>))

RenderSubstitutions ==
  {<<>>, <<Str(<<"x">>)>>, <<Str(<<"x">>), Str(<<"y">>)>>,
   <<SubstPromise(0)>>, <<SubstPromise(0), Str(<<"y">>)>>}

NoPromises == [k \in {} |-> Pending]

\* The promises among the substitution values, pending.
SubstPromises(subs) ==
  [id \in {subs[k].v : k \in {j \in 1..Len(subs) : subs[j].t = "promise"}} |->
     [state |-> "pending", value |-> Undef, will |-> Str(<<"z">>)]]

InitRender ==
  /\ data \in RenderTrees
  /\ substitutions \in RenderSubstitutions
  /\ pc = "start"
  /\ promises = SubstPromises(substitutions)
  /\ log = <<>>
  /\ result = Idle
  /\ text = Idle /\ textOut = Idle
  /\ attributesData = Idle /\ attrSubs = Idle /\ resolved = Idle
  /\ cache = Idle /\ parseCount = Idle /\ callCount = Idle /\ last = Idle

\* renderToText(data, substitutions): the whole tree is walked at once; what
\* waits for a promise is left to the promises' reactions.
Start ==
  /\ pc = "start"
  /\ LET r == render(<<>>, [promises |-> promises, log |-> log])
     IN /\ result' = r.res
        /\ promises' = r.st.promises
        /\ log' = r.st.log
  /\ pc' = "running"
  /\ UNCHANGED <<data, substitutions, textVars, attrVars, cacheVars>>

SettleEvent(id, ok) == [ev |-> "settle", id |-> id, ok |-> ok]

\* An asynchronous component's promise, or a promise passed as a substitution,
\* is fulfilled with its value or rejected.
Settle(id, ok) ==
  /\ id.kind \in {"comp", "subst"}
  /\ promises[id].state = "pending"
  /\ promises' =
       WithPromise(promises, id,
         [promises[id] EXCEPT !.state = IF ok THEN "fulfilled" ELSE "rejected",
                              !.value = IF ok THEN promises[id].will
                                        ELSE Failure(id.at)])
  /\ log' = Append(log, SettleEvent(id, ok))
  /\ UNCHANGED <<data, substitutions, pc, result, textVars, attrVars, cacheVars>>

\* Promise.allSettled in place of Promise.all: it goes on once every input has
\* settled, fulfilled or not.
AllSettled(inputs, ps) ==
  \A k \in 1..Len(inputs) :
    inputs[k].t = "promise" => ps[inputs[k].v].state # "pending"

\* Promise.race in place of Promise.all: it goes on once one input is fulfilled.
SomeFulfilled(inputs, ps) ==
  \E k \in 1..Len(inputs) :
    inputs[k].t = "promise" /\ ps[inputs[k].v].state = "fulfilled"

\* Promise.all(rendered) is fulfilled once every promise among rendered is.
AllFulfilled(inputs, ps) ==
  \A k \in 1..Len(inputs) :
    inputs[k].t = "promise" => ps[inputs[k].v].state = "fulfilled"

\* Where in the log a promise settled (0: not yet).
SettledAt(id, lg) ==
  IF \E i \in 1..Len(lg) : lg[i].ev = "settle" /\ lg[i].id = id
  THEN CHOOSE i \in 1..Len(lg) : lg[i].ev = "settle" /\ lg[i].id = id
  ELSE 0

InputValue(input, ps) ==
  IF input.t = "promise"
  THEN (IF ps[input.v].state = "fulfilled" THEN ps[input.v].value ELSE Undef)
  ELSE input

RECURSIVE ByCompletion(_, _, _)
\* The positions S of inputs, the earliest to complete first.
ByCompletion(S, inputs, lg) ==
  IF S = {} THEN <<>>
  ELSE LET at(k) == IF inputs[k].t = "promise" THEN SettledAt(inputs[k].v, lg) ELSE 0
           first == CHOOSE k \in S : \A j \in S : at(k) < at(j) \/ (at(k) = at(j) /\ k <= j)
       IN <<first>> \o ByCompletion(S \ {first}, inputs, lg)

\* The results pushed as they complete, not placed by position.
PromiseAllValuesByCompletion(inputs, ps, lg) ==
  LET order == ByCompletion(1..Len(inputs), inputs, lg)
  IN [k \in 1..Len(inputs) |-> InputValue(inputs[order[k]], ps)]

\* The array Promise.all(rendered) is fulfilled with: each result at the
\* position of its input.
PromiseAllValues(inputs, ps, lg) ==
  [k \in 1..Len(inputs) |-> InputValue(inputs[k], ps)]

\* The reaction children => renderers.children(children, substitutions) of
\* renderChildren, once Promise.all(rendered) is fulfilled.
ChildrenThen(path) ==
  LET id == PromiseId("kids", path)
  IN /\ id \in DOMAIN promises
     /\ promises[id].state = "pending"
     /\ AllFulfilled(promises[id].inputs, promises)
     /\ LET children == PromiseAllValues(promises[id].inputs, promises, log)
        IN /\ promises' = WithPromise(promises, id,
                            [promises[id] EXCEPT !.state = "fulfilled",
                                                 !.value = renderChildrenToText(children)])
           /\ log' = log \o <<[ev |-> "children", at |-> path, args |-> children],
                              SettleEvent(id, TRUE)>>
     /\ UNCHANGED <<data, substitutions, pc, result, textVars, attrVars, cacheVars>>

\* Promise.all(rendered) rejects as soon as one of rendered does, and so does
\* the promise of its then.
ChildrenReject(path) ==
  LET id == PromiseId("kids", path)
  IN /\ id \in DOMAIN promises
     /\ promises[id].state = "pending"
     /\ \E k \in 1..Len(promises[id].inputs) :
          LET input == promises[id].inputs[k]
          IN /\ input.t = "promise"
             /\ promises[input.v].state = "rejected"
             /\ promises' = WithPromise(promises, id,
                              [promises[id] EXCEPT !.state = "rejected",
                                                   !.value = promises[input.v].value])
     /\ log' = Append(log, SettleEvent(id, FALSE))
     /\ UNCHANGED <<data, substitutions, pc, result, textVars, attrVars, cacheVars>>

\* The reaction children => topRenderer(nameData, resolvedAttributes, children)
\* of render, once the children's promise is fulfilled; a promise returned by
\* the component is adopted.
NodeThen(path) ==
  LET id == PromiseId("node", path)
      kids == PromiseId("kids", path)
  IN /\ id \in DOMAIN promises
     /\ promises[id].state = "pending"
     /\ promises[id].adopts.t = "undef"
     /\ promises[kids].state = "fulfilled"
     /\ LET d == NodeAt(path)
            r == topRenderer(path, d.name, resolveAttributes(d.attributes, substitutions),
                             promises[kids].value, [promises |-> promises, log |-> log])
        IN IF r.res.t = "promise"
           THEN /\ promises' = WithPromise(r.st.promises, id,
                                 [promises[id] EXCEPT !.adopts = r.res])
                /\ log' = r.st.log
           ELSE /\ promises' = WithPromise(r.st.promises, id,
                                 [promises[id] EXCEPT !.state = "fulfilled",
                                                      !.value = r.res])
                /\ log' = Append(r.st.log, SettleEvent(id, TRUE))
     /\ UNCHANGED <<data, substitutions, pc, result, textVars, attrVars, cacheVars>>

\* The promise of render settles as the component's promise it adopted does.
NodeAdopt(path) ==
  LET id == PromiseId("node", path)
  IN /\ id \in DOMAIN promises
     /\ promises[id].state = "pending"
     /\ promises[id].adopts.t = "promise"
     /\ promises[promises[id].adopts.v].state # "pending"
     /\ LET adopted == promises[promises[id].adopts.v]
        IN /\ promises' = WithPromise(promises, id,
                            [promises[id] EXCEPT !.state = adopted.state,
                                                 !.value = adopted.value])
           /\ log' = Append(log, SettleEvent(id, adopted.state = "fulfilled"))
     /\ UNCHANGED <<data, substitutions, pc, result, textVars, attrVars, cacheVars>>

\* The promise of render rejects when the children's promise does: its then
\* has no rejection handler.
NodeReject(path) ==
  LET id == PromiseId("node", path)
      kids == PromiseId("kids", path)
  IN /\ id \in DOMAIN promises
     /\ promises[id].state = "pending"
     /\ promises[kids].state = "rejected"
     /\ promises' = WithPromise(promises, id,
                      [promises[id] EXCEPT !.state = "rejected",
                                           !.value = promises[kids].value])
     /\ log' = Append(log, SettleEvent(id, FALSE))
     /\ UNCHANGED <<data, substitutions, pc, result, textVars, attrVars, cacheVars>>

PromisePaths == {id.at : id \in DOMAIN promises}

NextRender ==
  \/ Start
  \/ \E id \in DOMAIN promises, ok \in BOOLEAN : Settle(id, ok)
  \/ \E path \in PromisePaths : ChildrenThen(path)
  \/ \E path \in PromisePaths : ChildrenReject(path)
  \/ \E path \in PromisePaths : NodeThen(path)
  \/ \E path \in PromisePaths : NodeAdopt(path)
  \/ \E path \in PromisePaths : NodeReject(path)

SpecRender == InitRender /\ [][NextRender]_vars

(***************************************************************************)
(* Properties of a render                                                  *)
(***************************************************************************)
RECURSIVE Expected(_)
\* The output of a subtree when nothing is asynchronous: every component's
\* output and every promised substitution taken at once, children joined in
\* the order of the tree.
Expected(tree) ==
  CASE tree.t = "str" -> tree
    [] tree.t = "num" ->
         (IF tree.v >= Len(substitutions) THEN Undef
          ELSE IF substitutions[tree.v + 1].t = "promise"
          THEN promises[substitutions[tree.v + 1].v].will
          ELSE substitutions[tree.v + 1])
    [] tree.t = "node" ->
         LET outputs == [k \in 1..Len(tree.children) |-> Expected(tree.children[k])]
             children == Str(ArrayJoin(outputs, <<>>))
             attributes == resolveAttributes(tree.attributes, substitutions)
         IN IF tree.name.t = "fn"
            THEN component(tree.name.v,
                           [attributes |-> attributes, children |-> children]).value
            ELSE renderElementToText(tree.name, attributes, children)

Settled(ref) == ref.t = "promise" /\ promises[ref.v].state # "pending"
Fulfilled(ref) == ref.t = "promise" /\ promises[ref.v].state = "fulfilled"
Rejected(ref) == ref.t = "promise" /\ promises[ref.v].state = "rejected"

\* C1: every array handed to renderers.children holds the outputs of the
\* group's children in source order, whatever the order in which the promises
\* settled, and so the text a render is fulfilled with is the text of the tree
\* in document order.
ChildrenInSourceOrder ==
  pc = "running" =>
    /\ \A i \in 1..Len(log) :
         log[i].ev = "children" =>
           LET node == NodeAt(log[i].at)
           IN /\ Len(log[i].args) = Len(node.children)
              /\ \A k \in 1..Len(node.children) :
                   log[i].args[k] = Expected(node.children[k])
    /\ Fulfilled(result) => promises[result.v].value = Expected(data)

\* C1's case: of the two Async siblings, the second settled first, and the
\* render was fulfilled with the first one's output first.
ChildrenInSourceOrderWitness ==
  /\ pc = "running"
  /\ data = RenderTree["pair"]
  /\ SettledAt(PromiseId("comp", <<4>>), log) > 0
  /\ SettledAt(PromiseId("comp", <<4>>), log) < SettledAt(PromiseId("comp", <<2>>), log)
  /\ Fulfilled(result)
  /\ promises[result.v].value = Str(Chars("<span> [One] [Two] </span>"))

RECURSIVE TreeIndices(_)
\* The substitution indices of a positional tree.
TreeIndices(tree) ==
  CASE tree.t = "num" -> {tree.v}
    [] tree.t = "arr" -> UNION {TreeIndices(tree.v[k]) : k \in 1..Len(tree.v)}
    [] tree.t = "node" ->
         UNION ({TreeIndices(tree.attributes[k].value) : k \in 1..Len(tree.attributes)}
                \cup {TreeIndices(tree.children[k]) : k \in 1..Len(tree.children)})
    [] OTHER -> {}

\* C3 as claimed: a render of a tree with an index that the substitution array
\* does not reach ends in a Bounds error.
OutOfRangeRaisesBounds ==
  (pc = "running" /\ \E i \in TreeIndices(data) : i >= Len(substitutions)) =>
    result.t = "error"

IsProperPrefix(p, q) == Len(p) < Len(q) /\ SubSeq(q, 1, Len(p)) = p

FailedComponents ==
  {id \in DOMAIN promises : id.kind = "comp" /\ promises[id].state = "rejected"}

\* The failures there are: of components and of promised substitutions.
Failures ==
  {promises[id].value :
     id \in {c \in DOMAIN promises :
               c.kind \in {"comp", "subst"} /\ promises[c].state = "rejected"}}

\* A reaction of some promise can run.
Reaction ==
  \E path \in PromisePaths :
    \/ ChildrenThen(path) \/ ChildrenReject(path)
    \/ NodeThen(path) \/ NodeAdopt(path) \/ NodeReject(path)

\* C6: once an asynchronous component's promise has rejected, the render's
\* promise is never fulfilled; it rejects with a failure that occurred (the
\* first to reach it), and has done so when no reaction is left to run; and neither
\* renderers.children nor the element or component combiner of any ancestor of
\* the failed component is invoked.
RejectionPropagates ==
  (pc = "running" /\ FailedComponents # {}) =>
    /\ result.t = "promise"
    /\ ~Fulfilled(result)
    /\ Rejected(result) => promises[result.v].value \in Failures
    /\ ~(ENABLED Reaction) => Rejected(result)
    /\ \A c \in FailedComponents : \A i \in 1..Len(log) :
         log[i].ev \in {"children", "element", "component"} =>
           ~IsProperPrefix(log[i].at, c.at)

\* C6's case: the first Async sibling rejected after the second was fulfilled,
\* and the render rejected with the first one's failure.
RejectionPropagatesWitness ==
  /\ pc = "running"
  /\ data = RenderTree["pair"]
  /\ promises[PromiseId("comp", <<4>>)].state = "fulfilled"
  /\ SettledAt(PromiseId("comp", <<4>>), log) < SettledAt(PromiseId("comp", <<2>>), log)
  /\ Rejected(result)
  /\ promises[result.v].value = Failure(<<2>>)

RECURSIVE StructuredPathsFrom(_, _)
\* The paths of the [name, attributes, children] nodes of a tree.
StructuredPathsFrom(tree, path) ==
  IF tree.t # "node" THEN {}
  ELSE {path} \cup UNION {StructuredPathsFrom(tree.children[k], Append(path, k)) :
                            k \in 1..Len(tree.children)}

StructuredPaths == StructuredPathsFrom(data, <<>>)

IsAsyncComponent(tree) == tree.t = "node" /\ tree.name = Fn("Async")

ChildrenCalls(path) == {i \in 1..Len(log) : log[i].ev = "children" /\ log[i].at = path}
CombinerCalls(path) ==
  {i \in 1..Len(log) : log[i].ev \in {"element", "component"} /\ log[i].at = path}

\* A child that is the index of a substitution whose value is a promise.
PromisedChild(child) ==
  /\ child.t = "num"
  /\ child.v < Len(substitutions)
  /\ substitutions[child.v + 1].t = "promise"

\* The tree has such a child, or is one.
UsesPromise ==
  \/ PromisedChild(data)
  \/ \E p \in StructuredPaths : \E k \in 1..Len(NodeAt(p).children) :
       PromisedChild(NodeAt(p).children[k])

NoAsyncComponent == \A p \in StructuredPaths : ~IsAsyncComponent(NodeAt(p))

\* The promise a child of a group stands for, if it stands for one.
ChildPromises(p, k) ==
  LET child == NodeAt(p).children[k]
  IN (IF IsAsyncComponent(child) THEN {PromiseId("comp", Append(p, k))} ELSE {})
       \cup (IF PromisedChild(child) THEN {substitutions[child.v + 1].v} ELSE {})

\* What holds of the order of combination in every render, failed or not.
CombineOrder ==
  /\ \A p \in StructuredPaths :
       /\ Cardinality(ChildrenCalls(p)) <= 1
       /\ Cardinality(CombinerCalls(p)) <= 1
       /\ \A i \in CombinerCalls(p) : \E j \in ChildrenCalls(p) : j < i
       /\ \A i \in ChildrenCalls(p) :
            \A k \in 1..Len(NodeAt(p).children) :
              /\ NodeAt(p).children[k].t = "node" =>
                   \E j \in CombinerCalls(Append(p, k)) : j < i
              /\ \A c \in ChildPromises(p, k) :
                   /\ c \in DOMAIN promises
                   /\ promises[c].state = "fulfilled"
                   /\ SettledAt(c, log) < i
  /\ \A c \in DOMAIN promises :
       (c.kind = "comp" /\ promises[c].state = "pending") =>
         \A p \in StructuredPaths :
           IsProperPrefix(p, c.at) => ChildrenCalls(p) \cup CombinerCalls(p) = {}

Quiescent ==
  /\ pc = "running"
  /\ \A c \in DOMAIN promises : promises[c].state # "pending"
  /\ ~(ENABLED Reaction)

====
